---- MODULE Spec2Model ----
(***************************************************************************)
(* State-machine model of the real-time polling backend: the Socket.IO     *)
(* handlers of src/src/websocket/server.ts (authenticate, join_poll, vote, *)
(* disconnect) and the REST handlers createPoll, updatePoll, deletePoll and *)
(* voteOnPoll of src/src/controllers/pollController.ts, over one shared    *)
(* database of polls, options and votes.                                   *)
(* Every await of a handler is a separate step, so handlers interleave     *)
(* exactly where the event loop lets them.                                 *)
(***************************************************************************)
EXTENDS Integers, Sequences, FiniteSets, TLC

(***************************************************************************)
(* Program constants                                                       *)
(***************************************************************************)
RATE_LIMIT_WINDOW == 10000
MAX_REQUESTS == 5

(***************************************************************************)
(* Bounds of the model                                                     *)
(***************************************************************************)
\* number of clock advances a behaviour may take
MaxTicks == 3

\* vote events one connection sends where handlers run concurrently
MaxVotesPerSocket == 2

\* polls createPoll may add to the ones the database starts with
MaxCreated == 1

\* the clock advances in half windows
TickMs == RATE_LIMIT_WINDOW \div 2

\* Date.now() when the server starts: later than one window after the epoch
StartTime == RATE_LIMIT_WINDOW

Sockets == {"s1", "s2"}
Users == {1, 2}
Tasks == {"t1", "t2"}

\* The database content the handlers run against (rows made by createPoll):
\* poll 1 published with options 1, 2; poll 2 published with options 3, 4;
\* poll 3 unpublished with options 5, 6.  Poll 9 and option 9 do not exist.
PollIds == {1, 2, 3}
OptionIds == {1, 2, 3, 4, 5, 6}

InitPolls ==
  [p \in PollIds |-> [isPublished |-> (p # 3), creatorId |-> 1, question |-> "q1"]]

\* the PollOption rows of these polls: order is the index createPoll gave the
\* option text
InitOptions ==
  [o \in OptionIds |-> [pollId |-> (o + 1) \div 2, order |-> (o + 1) % 2,
                        text |-> IF o % 2 = 1 THEN "a" ELSE "b"]]

\* the autoincrement sequences of Poll.id and PollOption.id after these rows
InitSeq == [poll |-> 3, option |-> 6]

\* the option rows of every poll in the order createPoll inserted them
CreationOrder == [p \in PollIds |-> <<2 * p - 1, 2 * p>>]

(***************************************************************************)
(* Strings are sequences of characters; parseInt and the template literal  *)
(* `poll_${pollId}` are computed on them.                                  *)
(***************************************************************************)
Digits == <<"0", "1", "2", "3", "4", "5", "6", "7", "8", "9">>

IsDigit(c) == \E i \in 1..Len(Digits) : Digits[i] = c

DigitVal(c) == (CHOOSE i \in 1..Len(Digits) : Digits[i] = c) - 1

NaN == -1

RECURSIVE ParseDigits(_, _)
ParseDigits(str, acc) ==
  IF str = <<>> \/ ~IsDigit(Head(str)) THEN acc
  ELSE ParseDigits(Tail(str), acc * 10 + DigitVal(Head(str)))

\* parseInt(str, 10): the leading digits, NaN when there is none
parseInt(str) ==
  IF str = <<>> \/ ~IsDigit(Head(str)) THEN NaN ELSE ParseDigits(str, 0)

RECURSIVE NumToStr(_)
NumToStr(n) ==
  IF n < 10 THEN <<Digits[n + 1]>>
  ELSE NumToStr(n \div 10) \o <<Digits[(n % 10) + 1]>>

\* the room name `poll_${pollId}`
RoomName(ref) == <<"p", "o", "l", "l", "_">> \o ref

(***************************************************************************)
(* State                                                                   *)
(***************************************************************************)
VARIABLES
  polls,        \* Poll table: id -> [isPublished, creatorId, question]
  votes,        \* Vote table: set of <<userId, pollOptionId>>
  sock,         \* per socket: [connected, userId, rooms]
  activeUsers,  \* Map socketId -> UserData, as socketId -> userId
  pollRooms,    \* Map pollId -> PollRoom, as pollId string -> set of socket ids
  rateLimit,    \* Map socketId -> [count, lastRequest]
  tasks,        \* the handler invocations in flight, one record per slot
  now,          \* Date.now()
  ticks,        \* clock advances taken
  everVoted,    \* history: <<userId, pollId>> for which a vote row was ever inserted
  lastEmit,     \* history: per poll id, the payload of the last tally broadcast
  lastDelivery, \* history: the last tally broadcast and who received it
  attempts,     \* history: per socket, the window opened by its first counted
                \* vote attempt and the vote events seen inside it
  heap,         \* PollOption table: per poll, its option rows in the order a
                \* query without orderBy returns them
  options,      \* PollOption table: id -> [pollId, order, text]
  seq           \* the last ids the sequences of Poll and PollOption gave out

vars == <<polls, votes, sock, activeUsers, pollRooms, rateLimit, tasks, now,
          ticks, everVoted, lastEmit, lastDelivery, attempts, heap, options,
          seq>>

\* PollOption.pollId; 0 when no such row
OptionPoll(o) == IF o \in DOMAIN options THEN options[o].pollId ELSE 0

OptionsOf(p) == {o \in DOMAIN options : options[o].pollId = p}

\* PollOption.order
OptionOrder(o) == options[o].order

NoUser == 0

\* a Map with no entry
EmptyMap == [k \in {} |-> NoUser]

NoSnap ==
  [tag |-> "none", pollId |-> 0, options |-> <<>>, counts |-> <<>>, totalVotes |-> 0]
NoDelivery == [pollId |-> 0, room |-> <<>>, to |-> {}]

\* an update body with neither field
NoData == [question |-> "", published |-> "keep"]

IdleTask ==
  [kind |-> "idle", pc |-> "idle", sock |-> "none", user |-> NoUser,
   ref |-> <<>>, poll |-> 0, opt |-> 0, removed |-> {}, inserted |-> FALSE,
   nb |-> 0, snap |-> NoSnap, rsnap |-> NoSnap, result |-> "", ord |-> 0,
   responses |-> 0, prior |-> {}, ledger0 |-> {}, was |-> NoUser,
   orphaned |-> FALSE, event |-> "", tries |-> 0, seen |-> {},
   rseen |-> {}, overlapped |-> FALSE, data |-> NoData,
   texts |-> <<>>]

\* both connections have completed the handshake and sent nothing yet
Init ==
  /\ polls = InitPolls
  /\ votes = {}
  /\ sock = [s \in Sockets |-> [connected |-> TRUE, userId |-> NoUser, rooms |-> {}]]
  /\ activeUsers = EmptyMap
  /\ pollRooms = EmptyMap
  /\ rateLimit = EmptyMap
  /\ tasks = [t \in Tasks |-> IdleTask]
  /\ now = StartTime
  /\ ticks = 0
  /\ everVoted = {}
  /\ lastEmit = [p \in PollIds |-> NoSnap]
  /\ lastDelivery = NoDelivery
  /\ attempts = EmptyMap
  /\ options = InitOptions
  /\ seq = InitSeq
  /\ heap = CreationOrder

MapSet(m, k, v) == [x \in DOMAIN m \cup {k} |-> IF x = k THEN v ELSE m[x]]

MapDelete(m, k) == [x \in DOMAIN m \ {k} |-> m[x]]

(***************************************************************************)
(* The database                                                            *)
(***************************************************************************)
PollExists(p) == p \in DOMAIN polls

\* a PollOption row exists while its poll does
OptionExists(o) == o \in DOMAIN options /\ PollExists(OptionPoll(o))

\* deleteMany that finds no row to delete
VotesOfNone(u, p, vs) == {}

\* the Vote rows of user u whose option belongs to poll p
VotesOf(u, p, vs) == {v \in vs : v[1] = u /\ OptionPoll(v[2]) = p}

\* _count.votes of option o
VoteCount(o, vs) == Cardinality({v \in vs : v[2] = o})

RECURSIVE SumCounts(_, _)
SumCounts(counts, opts) ==
  IF opts = {} THEN 0
  ELSE LET o == CHOOSE x \in opts : TRUE
       IN counts[o] + SumCounts(counts, opts \ {o})

NullSnap ==
  [tag |-> "null", pollId |-> 0, options |-> <<>>, counts |-> <<>>, totalVotes |-> 0]

\* the Vote rows the _count of the options of poll p counts
VotesOn(p, vs) == {v \in vs : OptionPoll(v[2]) = p}

\* the read answered from the last broadcast of the poll when there is one
getPollWithVotesFromLastEmit(p, vs, ps) ==
  IF p \notin DOMAIN ps THEN NullSnap
  ELSE IF lastEmit[p].tag = "poll" THEN lastEmit[p]
  ELSE LET counts == [o \in OptionsOf(p) |-> VoteCount(o, vs)]
       IN [tag |-> "poll", pollId |-> p, options |-> heap[p], counts |-> counts,
           totalVotes |-> SumCounts(counts, OptionsOf(p))]

\* totalVotes taken from a count of the poll's voters, not from the counts
getPollWithVotesVoterCount(p, vs, ps) ==
  IF p \notin DOMAIN ps THEN NullSnap
  ELSE [tag |-> "poll", pollId |-> p, options |-> heap[p],
        counts |-> [o \in OptionsOf(p) |-> VoteCount(o, vs)],
        totalVotes |-> Cardinality({v[1] : v \in {x \in vs : OptionPoll(x[2]) = p}})]

\* getPollWithVotes: null for a missing poll, else the option rows as the
\* query (which has no orderBy) returns them, their counts and the sum
getPollWithVotes(p, vs, ps) ==
  IF p \notin DOMAIN ps THEN NullSnap
  ELSE LET counts == [o \in OptionsOf(p) |-> VoteCount(o, vs)]
       IN [tag |-> "poll", pollId |-> p, options |-> heap[p], counts |-> counts,
           totalVotes |-> SumCounts(counts, OptionsOf(p))]

\* the option of S that orderBy: { order: 'asc' } puts first
FirstByOrder(S) == CHOOSE o \in S : \A x \in S : OptionOrder(o) <= OptionOrder(x)

RECURSIVE SortedByOrder(_)
SortedByOrder(S) ==
  IF S = {} THEN <<>>
  ELSE <<FirstByOrder(S)>> \o SortedByOrder(S \ {FirstByOrder(S)})

\* findUnique with options orderBy order asc, through formatPollResponse:
\* voteCount per option and totalVotes reduced from the same rows
formatPollResponse(p, vs, ps) ==
  IF p \notin DOMAIN ps THEN NullSnap
  ELSE [getPollWithVotes(p, vs, ps) EXCEPT !.options = SortedByOrder(OptionsOf(p))]

\* a unique index that still sees deleted rows: one insert per voter and poll
CanInsertVoteOnceEver(u, o, vs) ==
  OptionExists(o) /\ <<u, OptionPoll(o)>> \notin everVoted

\* the unique index unique_user_option and the foreign key of Vote.pollOptionId
CanInsertVote(u, o, vs) == OptionExists(o) /\ <<u, o>> \notin vs

(***************************************************************************)
(* Socket.IO rooms                                                         *)
(***************************************************************************)
\* io.emit in place of io.to(room).emit: every connected socket is reached
RoomMembersEveryone(room) == {s \in Sockets : sock[s].connected}

\* the sockets io.to(room) reaches
RoomMembers(room) == {s \in Sockets : room \in sock[s].rooms}

\* an emit that reaches nobody
DeliverNothing(p, room) == [pollId |-> p, room |-> room, to |-> {}]

Deliver(p, room) ==
  [pollId |-> p, room |-> room,
   to |-> {<<s, sock[s].rooms>> : s \in RoomMembers(room)}]

(***************************************************************************)
(* socket.on('vote')                                                       *)
(***************************************************************************)
\* the guard turned off: every connection passes
AuthenticatedAlways(s) == TRUE

\* the guard of join_poll and vote: socket.userId is set
Authenticated(s) == sock[s].userId # NoUser

\* history: the options of poll p user u has a vote on when a request arrives
PriorVote(u, p) == {v[2] : v \in VotesOf(u, p, votes)}

SetTask(t, rec) == tasks' = [tasks EXCEPT ![t] = rec]

Done(rec, msg) == [rec EXCEPT !.pc = "done", !.result = msg]

\* the window of the claim: opened by the first counted attempt, closed
\* RATE_LIMIT_WINDOW later; n counts the vote events inside it
NextAttempt(s) ==
  IF s \in DOMAIN attempts /\ now - attempts[s].start < RATE_LIMIT_WINDOW
  THEN [start |-> attempts[s].start,
        n |-> IF attempts[s].n > MAX_REQUESTS THEN attempts[s].n
              ELSE attempts[s].n + 1]
  ELSE [start |-> now, n |-> 1]

\* rateLimit.get(socket.id) || { count: 0, lastRequest: 0 }
UserRateLimit(s) ==
  IF s \in DOMAIN rateLimit THEN rateLimit[s] ELSE [count |-> 0, lastRequest |-> 0]

InWindow(s) == now - UserRateLimit(s).lastRequest < RATE_LIMIT_WINDOW

\* the count compared with > in place of >=
RateLimitedOffByOne(s) == InWindow(s) /\ UserRateLimit(s).count > MAX_REQUESTS

RateLimited(s) == InWindow(s) /\ UserRateLimit(s).count >= MAX_REQUESTS

\* the stored entry with a count that stays at 1
AdmittedUncounted(s) ==
  [count |-> 1,
   lastRequest |-> IF InWindow(s) THEN UserRateLimit(s).lastRequest ELSE now]

\* the stored entry with lastRequest moved to every admitted attempt
AdmittedSliding(s) ==
  IF InWindow(s)
  THEN [count |-> UserRateLimit(s).count + 1, lastRequest |-> now]
  ELSE [count |-> 1, lastRequest |-> now]

\* the entry rateLimit.set stores for an admitted attempt
Admitted(s) ==
  IF InWindow(s)
  THEN [count |-> UserRateLimit(s).count + 1,
        lastRequest |-> UserRateLimit(s).lastRequest]
  ELSE [count |-> 1, lastRequest |-> now]

\* history: how many attempts of socket s passed the rate check, by the
\* Date.now() of the attempt
AdmittedAt(s) == IF s \in DOMAIN attempts THEN attempts[s].adm ELSE EmptyMap

\* history: the record kept for socket s once this attempt has been checked
NextHistory(s) ==
  [start |-> NextAttempt(s).start, n |-> NextAttempt(s).n,
   adm |-> IF RateLimited(s) THEN AdmittedAt(s)
           ELSE MapSet(AdmittedAt(s), now,
                       IF now \in DOMAIN AdmittedAt(s)
                       THEN AdmittedAt(s)[now] + 1 ELSE 1)]

\* the vote operations of voter u that are between two of their steps
InFlightVotes(u) ==
  {x \in Tasks : /\ tasks[x].kind \in {"vote", "rest"} /\ tasks[x].user = u
                  /\ tasks[x].pc \notin {"idle", "done"}}

\* slot t takes up the vote operation rec; history: rec and the operations of
\* the same voter in flight beside it are marked as overlapping
StartVote(t, rec) ==
  tasks' = [x \in Tasks |->
              IF x = t THEN [rec EXCEPT !.overlapped = InFlightVotes(rec.user) # {}]
              ELSE IF x \in InFlightVotes(rec.user)
                THEN [tasks[x] EXCEPT !.overlapped = TRUE]
              ELSE tasks[x]]

\* the handler up to its first await: the authentication guard and the rate check
VoteEvent(t, s, ref, o) ==
  /\ tasks[t].kind = "idle"
  /\ sock[s].connected
  /\ LET rec == [IdleTask EXCEPT !.kind = "vote", !.sock = s, !.ref = ref,
                                  !.poll = parseInt(ref), !.opt = o,
                                  !.user = sock[s].userId,
                                  !.prior = PriorVote(sock[s].userId, parseInt(ref)),
                                  !.ledger0 = votes]
     IN IF ~Authenticated(s)
        THEN /\ SetTask(t, Done([rec EXCEPT !.prior = {}], "Not authenticated"))
             /\ UNCHANGED <<rateLimit, attempts>>
        ELSE /\ attempts' = MapSet(attempts, s, NextHistory(s))
             /\ IF RateLimited(s)
                THEN /\ SetTask(t, [Done(rec, "Rate limit exceeded")
                                      EXCEPT !.ord = NextAttempt(s).n])
                     /\ UNCHANGED rateLimit
                ELSE /\ StartVote(t, [rec EXCEPT !.pc = "deleteMany",
                                                 !.ord = NextAttempt(s).n])
                     /\ rateLimit' = MapSet(rateLimit, s, Admitted(s))
  /\ UNCHANGED <<polls, votes, sock, activeUsers, pollRooms, now, ticks,
                 everVoted, lastEmit, lastDelivery,
                 heap, options, seq>>

\* await prisma.vote.deleteMany(...)
VoteDeleteMany(t) ==
  /\ tasks[t].kind = "vote" /\ tasks[t].pc = "deleteMany"
  /\ LET gone == VotesOf(tasks[t].user, tasks[t].poll, votes)
     IN /\ votes' = votes \ gone
        /\ SetTask(t, [tasks[t] EXCEPT !.pc = "create",
                                       !.removed = {v[2] : v \in gone}])
  /\ UNCHANGED <<polls, sock, activeUsers, pollRooms, rateLimit, now, ticks,
                 everVoted, lastEmit, lastDelivery, attempts,
                 heap, options, seq>>

\* await prisma.vote.create(...); a rejected insert lands in the catch block
VoteCreate(t) ==
  /\ tasks[t].kind = "vote" /\ tasks[t].pc = "create"
  /\ IF CanInsertVote(tasks[t].user, tasks[t].opt, votes)
     THEN /\ votes' = votes \cup {<<tasks[t].user, tasks[t].opt>>}
          /\ everVoted' = everVoted \cup {<<tasks[t].user, OptionPoll(tasks[t].opt)>>}
          /\ SetTask(t, [tasks[t] EXCEPT !.pc = "read", !.inserted = TRUE,
                                         !.tries = tasks[t].tries + 1])
     ELSE /\ SetTask(t, [Done(tasks[t], "Failed to record vote")
                           EXCEPT !.tries = tasks[t].tries + 1])
          /\ UNCHANGED <<votes, everVoted>>
  /\ UNCHANGED <<polls, sock, activeUsers, pollRooms, rateLimit, now, ticks,
                 lastEmit, lastDelivery, attempts,
                 heap, options, seq>>

\* await getPollWithVotes(pollIdNumber, userIdNumber)
VoteRead(t) ==
  /\ tasks[t].kind = "vote" /\ tasks[t].pc = "read"
  /\ SetTask(t, [tasks[t] EXCEPT !.pc = "emit",
                                 !.snap = getPollWithVotes(tasks[t].poll, votes, polls),
                                 !.seen = VotesOn(tasks[t].poll, votes)])
  /\ UNCHANGED <<polls, votes, sock, activeUsers, pollRooms, rateLimit, now,
                 ticks, everVoted, lastEmit, lastDelivery, attempts,
                 heap, options, seq>>

\* the room the vote handler broadcasts to
VoteRoom(t) == RoomName(tasks[t].ref)

RecordEmit(p, snap) ==
  lastEmit' = IF p \in DOMAIN lastEmit THEN [lastEmit EXCEPT ![p] = snap] ELSE lastEmit

\* io.to(`poll_${pollId}`).emit('poll_updated', updatedPoll)
VoteEmit(t) ==
  /\ tasks[t].kind = "vote" /\ tasks[t].pc = "emit"
  /\ lastDelivery' = Deliver(tasks[t].poll, VoteRoom(t))
  /\ RecordEmit(tasks[t].poll, tasks[t].snap)
  /\ SetTask(t, [Done(tasks[t], "ok") EXCEPT !.nb = tasks[t].nb + 1,
                                              !.event = "poll_updated"])
  /\ UNCHANGED <<polls, votes, sock, activeUsers, pollRooms, rateLimit, now,
                 ticks, everVoted, attempts,
                 heap, options, seq>>

\* poll.votes of the read the vote handler makes with the voter's id:
\* votes: { where: { userId }, select: { optionId: true } }, the option ids
\* of the voter's own rows on the poll (userVote is the first of them)
VoterVotes(u, p, rows) == {v[2] : v \in VotesOf(u, p, rows)}

\* updatedPoll, the object the vote handler emits as 'poll_updated':
\* { ...poll, totalVotes, userVote, options }
updatedPoll(t) ==
  [poll |-> tasks[t].snap,
   votes |-> VoterVotes(tasks[t].user, tasks[t].poll, tasks[t].seen)]

\* the handler invocation has returned; its slot is free again
Retire(t) ==
  /\ tasks[t].pc = "done"
  /\ SetTask(t, IdleTask)
  /\ UNCHANGED <<polls, votes, sock, activeUsers, pollRooms, rateLimit, now,
                 ticks, everVoted, lastEmit, lastDelivery, attempts,
                 heap, options, seq>>

(***************************************************************************)
(* socket.on('authenticate')                                               *)
(***************************************************************************)
Tokens == {"jwt1", "jwt2", "bad"}

\* verifyToken: the userId of the payload, or NoUser when jwt.verify throws
verifyToken(tok) ==
  CASE tok = "jwt1" -> 1
    [] tok = "jwt2" -> 2
    [] OTHER -> NoUser

\* the handler up to await verifyToken(token)
AuthEvent(t, s, tok) ==
  /\ tasks[t].kind = "idle"
  /\ sock[s].connected
  /\ SetTask(t, [IdleTask EXCEPT !.kind = "auth", !.pc = "verify", !.sock = s,
                                 !.user = verifyToken(tok)])
  /\ UNCHANGED <<polls, votes, sock, activeUsers, pollRooms, rateLimit, now,
                 ticks, everVoted, lastEmit, lastDelivery, attempts,
                 heap, options, seq>>

\* socket.userId assigned whatever verifyToken gave, a failure clearing it
SocketAfterAuthReset(s, uid) == [sock EXCEPT ![s].userId = uid]

\* socket.userId after the await: assigned on success, untouched by the catch
SocketAfterAuth(s, uid) ==
  IF uid # NoUser THEN [sock EXCEPT ![s].userId = uid] ELSE sock

\* activeUsers.set run whatever verifyToken gave
ActiveUsersAfterAuthAlways(s, uid) == MapSet(activeUsers, s, uid)

\* activeUsers after the await: the entry set on success, untouched by the catch
ActiveUsersAfterAuth(s, uid) ==
  IF uid # NoUser THEN MapSet(activeUsers, s, uid) ELSE activeUsers

\* after the await: socket.userId, activeUsers.set and 'authenticated', or the
\* catch block's 'authentication_error'; was is the history of socket.userId
\* as the handler found it
AuthResume(t) ==
  /\ tasks[t].kind = "auth" /\ tasks[t].pc = "verify"
  /\ sock' = SocketAfterAuth(tasks[t].sock, tasks[t].user)
  /\ activeUsers' = ActiveUsersAfterAuth(tasks[t].sock, tasks[t].user)
  /\ SetTask(t, [Done(tasks[t], IF tasks[t].user # NoUser THEN "authenticated"
                                 ELSE "authentication_error")
                   EXCEPT !.was = sock[tasks[t].sock].userId])
  /\ UNCHANGED <<polls, votes, pollRooms, rateLimit, now, ticks, everVoted,
                 lastEmit, lastDelivery, attempts, heap, options, seq>>

(***************************************************************************)
(* socket.on('join_poll')                                                  *)
(***************************************************************************)
\* pollRooms.get(pollId).users after users.add(socket.id)
TrackedUsers(ref, s) ==
  (IF ref \in DOMAIN pollRooms THEN pollRooms[ref] ELSE {}) \cup {s}

\* socket.join without the leave loop before it
JoinedRoomsNoLeave(s, ref) == sock[s].rooms \cup {RoomName(ref)}

\* socket.rooms after the leave loop and socket.join
JoinedRooms(s, ref) == {RoomName(ref)}

\* the handler up to await getPollWithVotes
JoinEvent(t, s, ref) ==
  /\ tasks[t].kind = "idle"
  /\ sock[s].connected
  /\ LET rec == [IdleTask EXCEPT !.kind = "join", !.sock = s, !.ref = ref,
                                  !.poll = parseInt(ref), !.user = sock[s].userId]
     IN IF ~Authenticated(s)
        THEN /\ SetTask(t, Done(rec, "Not authenticated"))
             /\ UNCHANGED <<sock, pollRooms>>
        ELSE /\ sock' = [sock EXCEPT ![s].rooms = JoinedRooms(s, ref)]
             /\ pollRooms' = MapSet(pollRooms, ref, TrackedUsers(ref, s))
             /\ SetTask(t, [rec EXCEPT !.pc = "join_read"])
  /\ UNCHANGED <<polls, votes, activeUsers, rateLimit, now, ticks, everVoted,
                 lastEmit, lastDelivery, attempts,
                 heap, options, seq>>

\* prisma.poll.findUnique({ where: { id: pollId } }) rejects an id that is
\* not a number: the awaited read throws
ReadThrows(p) == p = NaN

\* await getPollWithVotes(parseInt(pollId), userId); socket.emit('poll_data', poll),
\* or the catch when the read throws
JoinRead(t) ==
  /\ tasks[t].kind = "join" /\ tasks[t].pc = "join_read"
  /\ SetTask(t, IF ReadThrows(tasks[t].poll)
                  THEN Done(tasks[t], "Failed to join poll")
                  ELSE [Done(tasks[t], "poll_data")
                          EXCEPT !.snap = getPollWithVotes(tasks[t].poll, votes, polls),
                                 !.seen = VotesOn(tasks[t].poll, votes)])
  /\ UNCHANGED <<polls, votes, sock, activeUsers, pollRooms, rateLimit, now,
                 ticks, everVoted, lastEmit, lastDelivery, attempts,
                 heap, options, seq>>

(***************************************************************************)
(* socket.on('disconnect')                                                 *)
(***************************************************************************)
\* the disconnect handler without its pollRooms cleanup
PollRoomsKept(s) == pollRooms

\* the forEach without its pollRooms.delete: emptied entries stay
PollRoomsEmptied(s) == [r \in DOMAIN pollRooms |-> pollRooms[r] \ {s}]

\* pollRooms after the forEach: the socket removed from every users set that
\* has it, and the entries this empties deleted
PollRoomsWithout(s) ==
  [r \in {x \in DOMAIN pollRooms : pollRooms[x] \ {s} # {}} |-> pollRooms[r] \ {s}]

\* history: the vote handlers of socket s that have committed their insert
\* and not emitted yet are marked; the handlers themselves run on untouched
MarkOrphaned(s) ==
  [t \in Tasks |->
     IF /\ tasks[t].kind = "vote" /\ tasks[t].sock = s
        /\ tasks[t].inserted /\ tasks[t].pc \in {"read", "emit"}
     THEN [tasks[t] EXCEPT !.orphaned = TRUE]
     ELSE tasks[t]]

\* Socket.IO has left every room of the socket when 'disconnect' is emitted
Disconnect(s) ==
  /\ sock[s].connected
  /\ sock' = [sock EXCEPT ![s].connected = FALSE, ![s].rooms = {}]
  /\ activeUsers' = MapDelete(activeUsers, s)
  /\ pollRooms' = PollRoomsWithout(s)
  /\ tasks' = MarkOrphaned(s)
  /\ UNCHANGED <<polls, votes, rateLimit, now, ticks, everVoted,
                 lastEmit, lastDelivery, attempts,
                 heap, options, seq>>

\* the rooms the join_poll handler sends 'user_left' to: its leave loop
\* calls socket.leave(room) and emits nothing
UserLeftOnJoin(s, ref) == {}

\* the rooms the disconnect handler sends 'user_left' to: one per pollRooms
\* entry whose users set has the socket
UserLeftOnDisconnect(s) ==
  {RoomName(ref) : ref \in {x \in DOMAIN pollRooms : s \in pollRooms[x]}}

(***************************************************************************)
(* voteOnPoll (POST /polls/:id/vote)                                       *)
(***************************************************************************)
\* the request as the route hands it over: req.user, parseInt(req.params.id)
\* and the optionId voteSchema parsed
RestVote(t, u, p, o) ==
  /\ tasks[t].kind = "idle"
  /\ StartVote(t, [IdleTask EXCEPT !.kind = "rest", !.pc = "r_find", !.user = u,
                                   !.poll = p, !.ref = NumToStr(p), !.opt = o,
                                   !.prior = PriorVote(u, p), !.ledger0 = votes])
  /\ UNCHANGED <<polls, votes, sock, activeUsers, pollRooms, rateLimit, now,
                 ticks, everVoted, lastEmit, lastDelivery, attempts,
                 heap, options, seq>>

Respond(rec, msg) == [rec EXCEPT !.responses = rec.responses + 1, !.result = msg]

\* the checks with the option looked at before the poll
PreconditionErrorOptionFirst(p, o) ==
  IF ~PollExists(p) \/ o \notin OptionsOf(p) THEN "400 Invalid option for this poll"
  ELSE IF ~polls[p].isPublished THEN "400 This poll is not published"
  ELSE ""

\* the precondition checks on the poll read with its matching option: the
\* response of the first check that fails, "" when all pass
PreconditionError(p, o) ==
  IF ~PollExists(p) THEN "404 Poll not found"
  ELSE IF ~polls[p].isPublished THEN "400 This poll is not published"
  ELSE IF o \notin OptionsOf(p) THEN "400 Invalid option for this poll"
  ELSE ""

RestFindPoll(t) ==
  /\ tasks[t].kind = "rest" /\ tasks[t].pc = "r_find"
  /\ LET rec == tasks[t]
         err == PreconditionError(rec.poll, rec.opt)
     IN SetTask(t, IF err # "" THEN [Respond(rec, err) EXCEPT !.pc = "done"]
                   ELSE [rec EXCEPT !.pc = "r_txfind"])
  /\ UNCHANGED <<polls, votes, sock, activeUsers, pollRooms, rateLimit, now,
                 ticks, everVoted, lastEmit, lastDelivery, attempts,
                 heap, options, seq>>

\* tx.vote.findFirst: an existing vote is answered 400 from inside the
\* transaction callback, whose return then lets voteOnPoll run on
RestTxFind(t) ==
  /\ tasks[t].kind = "rest" /\ tasks[t].pc = "r_txfind"
  /\ LET rec == tasks[t]
     IN SetTask(t,
          IF VotesOf(rec.user, rec.poll, votes) # {}
            THEN [Respond(rec, "400 You have already voted on this poll")
                    EXCEPT !.pc = "r_readback"]
          ELSE [rec EXCEPT !.pc = "r_txcreate"])
  /\ UNCHANGED <<polls, votes, sock, activeUsers, pollRooms, rateLimit, now,
                 ticks, everVoted, lastEmit, lastDelivery, attempts,
                 heap, options, seq>>

\* tx.vote.create: P2002 is answered 400, any other error goes to next(error)
RestTxCreate(t) ==
  /\ tasks[t].kind = "rest" /\ tasks[t].pc = "r_txcreate"
  /\ LET rec == [tasks[t] EXCEPT !.tries = tasks[t].tries + 1]
     IN IF CanInsertVote(rec.user, rec.opt, votes)
        THEN /\ votes' = votes \cup {<<rec.user, rec.opt>>}
             /\ everVoted' = everVoted \cup {<<rec.user, OptionPoll(rec.opt)>>}
             /\ SetTask(t, [rec EXCEPT !.pc = "r_readback", !.inserted = TRUE])
        ELSE /\ SetTask(t,
                  IF <<rec.user, rec.opt>> \in votes
                    THEN [Respond(rec, "400 You have already voted on this poll")
                            EXCEPT !.pc = "done"]
                  ELSE [Respond(rec, "500 next(error)") EXCEPT !.pc = "done"])
             /\ UNCHANGED <<votes, everVoted>>
  /\ UNCHANGED <<polls, sock, activeUsers, pollRooms, rateLimit, now, ticks,
                 lastEmit, lastDelivery, attempts,
                 heap, options, seq>>

\* the read-back for the response body
RestReadBack(t) ==
  /\ tasks[t].kind = "rest" /\ tasks[t].pc = "r_readback"
  /\ SetTask(t, [tasks[t] EXCEPT !.pc = "r_bread",
                                 !.rsnap = formatPollResponse(tasks[t].poll, votes, polls),
                                 !.rseen = VotesOn(tasks[t].poll, votes)])
  /\ UNCHANGED <<polls, votes, sock, activeUsers, pollRooms, rateLimit, now,
                 ticks, everVoted, lastEmit, lastDelivery, attempts,
                 heap, options, seq>>

\* broadcastPollUpdate: its own findUnique
RestBroadcastRead(t) ==
  /\ tasks[t].kind = "rest" /\ tasks[t].pc = "r_bread"
  /\ SetTask(t, [tasks[t] EXCEPT !.pc = "r_emit",
                                 !.snap = formatPollResponse(tasks[t].poll, votes, polls),
                                 !.seen = VotesOn(tasks[t].poll, votes)])
  /\ UNCHANGED <<polls, votes, sock, activeUsers, pollRooms, rateLimit, now,
                 ticks, everVoted, lastEmit, lastDelivery, attempts,
                 heap, options, seq>>

\* the room broadcastPollUpdate emits to
RestRoom(t) == RoomName(NumToStr(tasks[t].poll))

\* res.status(201).json(...): the first response of the request, or a second
\* send that throws
Respond201(rec) ==
  IF rec.responses = 0 THEN Respond(rec, "201 Vote recorded successfully")
  ELSE [rec EXCEPT !.responses = rec.responses + 1]

\* broadcastPollUpdate emits 'poll:updated' when the poll was found; then
\* voteOnPoll sends 201
RestEmit(t) ==
  /\ tasks[t].kind = "rest" /\ tasks[t].pc = "r_emit"
  /\ IF tasks[t].snap.tag = "poll"
     THEN /\ lastDelivery' = Deliver(tasks[t].poll, RestRoom(t))
          /\ RecordEmit(tasks[t].poll, tasks[t].snap)
          /\ SetTask(t, [Respond201(tasks[t]) EXCEPT !.pc = "done",
                                                     !.nb = tasks[t].nb + 1,
                                                     !.event = "poll:updated"])
     ELSE /\ SetTask(t, [Respond201(tasks[t]) EXCEPT !.pc = "done"])
          /\ UNCHANGED <<lastEmit, lastDelivery>>
  /\ UNCHANGED <<polls, votes, sock, activeUsers, pollRooms, rateLimit, now,
                 ticks, everVoted, attempts,
                 heap, options, seq>>

(***************************************************************************)
(* The two vote entry points run alone on ledger vs: whether the caller is  *)
(* told the vote was recorded, the ledger left behind, and the broadcast   *)
(* event emitted ("" for none).                                            *)
(***************************************************************************)
\* socket.on('vote'): deleteMany, create, then the emit unless create threw
voteEventEffect(u, p, o, vs) ==
  LET kept == vs \ VotesOf(u, p, vs)
  IN IF CanInsertVote(u, o, kept)
     THEN [accepted |-> TRUE, ledger |-> kept \cup {<<u, o>>}, event |-> "poll_updated"]
     ELSE [accepted |-> FALSE, ledger |-> kept, event |-> ""]

\* voteOnPoll: the precondition checks, findFirst, create, broadcastPollUpdate
voteOnPollEffect(u, p, o, vs) ==
  IF PreconditionError(p, o) # ""
    THEN [accepted |-> FALSE, ledger |-> vs, event |-> ""]
  ELSE IF VotesOf(u, p, vs) # {}
    THEN [accepted |-> FALSE, ledger |-> vs, event |-> "poll:updated"]
  ELSE [accepted |-> TRUE, ledger |-> vs \cup {<<u, o>>}, event |-> "poll:updated"]

(***************************************************************************)
(* createPoll, updatePoll, deletePoll                                      *)
(***************************************************************************)
\* createPollSchema: at least two option texts
ValidOptions(texts) == Len(texts) >= 2

\* order taken from the length of the array in place of the index
NewOptionsSameOrder(p, texts) ==
  [o \in (seq.option + 1)..(seq.option + Len(texts)) |->
     [pollId |-> p, order |-> Len(texts), text |-> texts[o - seq.option]]]

\* options.map((text, index) => ({ text, order: index })) as rows of poll p,
\* their ids taken from the sequence in the order of the array
NewOptions(p, texts) ==
  [o \in (seq.option + 1)..(seq.option + Len(texts)) |->
     [pollId |-> p, order |-> o - seq.option - 1, text |-> texts[o - seq.option]]]

\* the table with the rows of rs added
WithRows(rs) ==
  [o \in DOMAIN options \cup DOMAIN rs |-> IF o \in DOMAIN rs THEN rs[o] ELSE options[o]]

\* POST /polls: parse, prisma.poll.create with its nested options, 201
createPoll(t, u, texts, pub) ==
  /\ tasks[t].kind = "idle"
  /\ seq.poll < InitSeq.poll + MaxCreated
  /\ LET p == seq.poll + 1
         rec == [IdleTask EXCEPT !.kind = "create", !.user = u, !.poll = p,
                                 !.texts = texts]
     IN IF ~ValidOptions(texts)
        THEN /\ SetTask(t, Respond(Done([rec EXCEPT !.poll = 0], ""), "400 Validation error"))
             /\ UNCHANGED <<polls, options, seq, heap, lastEmit>>
        ELSE /\ polls' = MapSet(polls, p, [isPublished |-> pub, creatorId |-> u,
                                           question |-> "q1"])
             /\ options' = WithRows(NewOptions(p, texts))
             /\ seq' = [poll |-> p, option |-> seq.option + Len(texts)]
             /\ heap' = MapSet(heap, p, [i \in 1..Len(texts) |-> seq.option + i])
             /\ lastEmit' = MapSet(lastEmit, p, NoSnap)
             /\ SetTask(t, Respond(Done(rec, ""), "201"))
  /\ UNCHANGED <<votes, sock, activeUsers, pollRooms, rateLimit, now, ticks,
                 everVoted, lastDelivery, attempts>>

\* PATCH /polls/:id up to await prisma.poll.findUnique
UpdateEvent(t, u, p, data) ==
  /\ tasks[t].kind = "idle"
  /\ SetTask(t, [IdleTask EXCEPT !.kind = "update", !.pc = "u_find", !.user = u,
                                 !.poll = p, !.ref = NumToStr(p), !.data = data])
  /\ UNCHANGED <<polls, votes, sock, activeUsers, pollRooms, rateLimit, now,
                 ticks, everVoted, lastEmit, lastDelivery, attempts,
                 heap, options, seq>>

\* the checks with the owner test left out
OwnerErrorNone(p, u, what) ==
  IF ~PollExists(p) THEN "404 Poll not found" ELSE ""

\* the existence and owner checks of updatePoll and deletePoll: the response
\* of the first that fails, "" when both pass
OwnerError(p, u, what) ==
  IF ~PollExists(p) THEN "404 Poll not found"
  ELSE IF polls[p].creatorId # u THEN "403 Not authorized to " \o what \o " this poll"
  ELSE ""

UpdateFind(t) ==
  /\ tasks[t].kind = "update" /\ tasks[t].pc = "u_find"
  /\ LET err == OwnerError(tasks[t].poll, tasks[t].user, "update")
     IN IF err # "" THEN SetTask(t, Respond(Done(tasks[t], ""), err))
        ELSE SetTask(t, [tasks[t] EXCEPT !.pc = "u_write"])
  /\ UNCHANGED <<polls, votes, sock, activeUsers, pollRooms, rateLimit, now,
                 ticks, everVoted, lastEmit, lastDelivery, attempts,
                 heap, options, seq>>

\* the Poll row after prisma.poll.update({ data: updateData })
UpdatedPoll(row, data) ==
  [row EXCEPT !.question = IF data.question = "" THEN @ ELSE data.question,
              !.isPublished = IF data.published = "keep" THEN @
                              ELSE data.published = "yes"]

\* await prisma.poll.update: throws when the row is gone
UpdateWrite(t) ==
  /\ tasks[t].kind = "update" /\ tasks[t].pc = "u_write"
  /\ IF PollExists(tasks[t].poll)
     THEN /\ polls' = [polls EXCEPT ![tasks[t].poll] = UpdatedPoll(@, tasks[t].data)]
          /\ SetTask(t, [tasks[t] EXCEPT !.pc = "u_bread"])
     ELSE /\ SetTask(t, Respond(Done(tasks[t], ""), "500"))
          /\ UNCHANGED polls
  /\ UNCHANGED <<votes, sock, activeUsers, pollRooms, rateLimit, now,
                 ticks, everVoted, lastEmit, lastDelivery, attempts,
                 heap, options, seq>>

\* broadcastPollUpdate: its findUnique
UpdateBroadcastRead(t) ==
  /\ tasks[t].kind = "update" /\ tasks[t].pc = "u_bread"
  /\ SetTask(t, [tasks[t] EXCEPT !.pc = "u_emit",
                                 !.snap = formatPollResponse(tasks[t].poll, votes, polls),
                                 !.seen = VotesOn(tasks[t].poll, votes)])
  /\ UNCHANGED <<polls, votes, sock, activeUsers, pollRooms, rateLimit, now,
                 ticks, everVoted, lastEmit, lastDelivery, attempts,
                 heap, options, seq>>

\* the emit of broadcastPollUpdate when the poll was found, then res.json
UpdateEmit(t) ==
  /\ tasks[t].kind = "update" /\ tasks[t].pc = "u_emit"
  /\ IF tasks[t].snap.tag = "poll"
     THEN /\ lastDelivery' = Deliver(tasks[t].poll, RestRoom(t))
          /\ RecordEmit(tasks[t].poll, tasks[t].snap)
          /\ SetTask(t, [Respond(Done(tasks[t], ""), "200")
                           EXCEPT !.nb = tasks[t].nb + 1, !.event = "poll:updated"])
     ELSE /\ SetTask(t, Respond(Done(tasks[t], ""), "200"))
          /\ UNCHANGED <<lastEmit, lastDelivery>>
  /\ UNCHANGED <<polls, votes, sock, activeUsers, pollRooms, rateLimit, now,
                 ticks, everVoted, attempts,
                 heap, options, seq>>

\* DELETE /polls/:id up to await prisma.poll.findUnique
DeleteEvent(t, u, p) ==
  /\ tasks[t].kind = "idle"
  /\ SetTask(t, [IdleTask EXCEPT !.kind = "delete", !.pc = "d_find", !.user = u,
                                 !.poll = p, !.ref = NumToStr(p)])
  /\ UNCHANGED <<polls, votes, sock, activeUsers, pollRooms, rateLimit, now,
                 ticks, everVoted, lastEmit, lastDelivery, attempts,
                 heap, options, seq>>

DeleteFind(t) ==
  /\ tasks[t].kind = "delete" /\ tasks[t].pc = "d_find"
  /\ LET err == OwnerError(tasks[t].poll, tasks[t].user, "delete")
     IN IF err # "" THEN SetTask(t, Respond(Done(tasks[t], ""), err))
        ELSE SetTask(t, [tasks[t] EXCEPT !.pc = "d_write"])
  /\ UNCHANGED <<polls, votes, sock, activeUsers, pollRooms, rateLimit, now,
                 ticks, everVoted, lastEmit, lastDelivery, attempts,
                 heap, options, seq>>

\* await prisma.poll.delete where the foreign keys cascade: the poll goes
\* with its options and their votes; 204
DeleteCascade(t) ==
  /\ tasks[t].kind = "delete" /\ tasks[t].pc = "d_write"
  /\ PollExists(tasks[t].poll)
  /\ polls' = MapDelete(polls, tasks[t].poll)
  /\ options' = [o \in DOMAIN options \ OptionsOf(tasks[t].poll) |-> options[o]]
  /\ votes' = {v \in votes : v[2] \notin OptionsOf(tasks[t].poll)}
  /\ heap' = MapDelete(heap, tasks[t].poll)
  /\ SetTask(t, Respond(Done(tasks[t], ""), "204"))
  /\ UNCHANGED <<sock, activeUsers, pollRooms, rateLimit, now, ticks, everVoted,
                 lastEmit, lastDelivery, attempts, seq>>

\* await prisma.poll.delete throws: the row is gone, or the foreign key of
\* the poll's options restricts the delete; next(error)
DeleteThrows(t) ==
  /\ tasks[t].kind = "delete" /\ tasks[t].pc = "d_write"
  /\ SetTask(t, Respond(Done(tasks[t], ""), "500"))
  /\ UNCHANGED <<polls, votes, sock, activeUsers, pollRooms, rateLimit, now,
                 ticks, everVoted, lastEmit, lastDelivery, attempts,
                 heap, options, seq>>

\* a step of an updatePoll or deletePoll call in flight
PollStep(t) ==
  \/ UpdateFind(t)
  \/ UpdateWrite(t)
  \/ UpdateBroadcastRead(t)
  \/ UpdateEmit(t)
  \/ DeleteFind(t)
  \/ DeleteCascade(t)
  \/ DeleteThrows(t)

(***************************************************************************)
(* The clock                                                               *)
(***************************************************************************)
Tick ==
  /\ ticks < MaxTicks
  /\ now' = now + TickMs
  /\ ticks' = ticks + 1
  /\ UNCHANGED <<polls, votes, sock, activeUsers, pollRooms, rateLimit, tasks,
                 everVoted, lastEmit, lastDelivery, attempts,
                 heap, options, seq>>

(***************************************************************************)
(* Specifications.  Each draws the requests of one part of the system from  *)
(* small sets; the handlers are the same in all of them.                   *)
(***************************************************************************)
\* a step of a vote handler in flight
WsStep(t) ==
  \/ VoteDeleteMany(t)
  \/ VoteCreate(t)
  \/ VoteRead(t)
  \/ VoteEmit(t)
  \/ Retire(t)

\* a step of a voteOnPoll call in flight
RestStep(t) ==
  \/ RestFindPoll(t)
  \/ RestTxFind(t)
  \/ RestTxCreate(t)
  \/ RestReadBack(t)
  \/ RestBroadcastRead(t)
  \/ RestEmit(t)

Step(t) == WsStep(t) \/ RestStep(t)

AuthStep(t) == AuthResume(t)

\* Sequential requests: one handler at a time, by one connection and by REST
\* callers, naming published poll 1, unpublished poll 3, and options that
\* are valid, foreign or missing.
SeqTasks == {"t1"}
SeqRefs == {<<"1">>, <<"3">>}
SeqOptions == {1, 2, 5, 9}

NextSeq ==
  \/ \E t \in SeqTasks : AuthEvent(t, "s1", "jwt1")
  \/ \E t \in SeqTasks : AuthStep(t)
  \/ \E t \in SeqTasks, ref \in SeqRefs, o \in SeqOptions : VoteEvent(t, "s1", ref, o)
  \/ \E t \in SeqTasks, u \in Users, ref \in SeqRefs, o \in SeqOptions :
       RestVote(t, u, parseInt(ref), o)
  \/ \E t \in SeqTasks : Step(t)

SpecSeq == Init /\ [][NextSeq]_vars

\* Concurrent well-formed votes: two handlers in flight on behalf of user 1,
\* whose connection s1 has authenticated; every request names published
\* poll 1 and one of its options.
RaceRefs == {<<"1">>}
RaceOptions == {1, 2}
RaceUsers == {1}

InitRace ==
  /\ polls = InitPolls
  /\ votes = {}
  /\ sock = [s \in Sockets |->
               [connected |-> TRUE, userId |-> IF s = "s1" THEN 1 ELSE NoUser,
                rooms |-> {}]]
  /\ activeUsers = MapSet(EmptyMap, "s1", 1)
  /\ pollRooms = EmptyMap
  /\ rateLimit = EmptyMap
  /\ tasks = [t \in Tasks |-> IdleTask]
  /\ now = StartTime
  /\ ticks = 0
  /\ everVoted = {}
  /\ lastEmit = [p \in PollIds |-> NoSnap]
  /\ lastDelivery = NoDelivery
  /\ attempts = EmptyMap
  /\ options = InitOptions
  /\ seq = InitSeq
  /\ heap = CreationOrder

NextRace ==
  \/ \E t \in Tasks, ref \in RaceRefs, o \in RaceOptions :
       /\ UserRateLimit("s1").count < MaxVotesPerSocket
       /\ VoteEvent(t, "s1", ref, o)
  \/ \E t \in Tasks, u \in RaceUsers, ref \in RaceRefs, o \in RaceOptions :
       RestVote(t, u, parseInt(ref), o)
  \/ \E t \in Tasks : Step(t)

SpecRace == InitRace /\ [][NextRace]_vars

\* Rooms: connection s1 (authenticated) and connection s2 (which authenticates
\* on the way) join and switch between the rooms of polls 1 and 2, vote for
\* option 1 under either poll id and disconnect, while a REST caller votes too.
\* A join_poll handler may be in flight beside any other handler.
RoomRefs == {<<"1">>, <<"2">>}
RoomTokens == {"jwt1", "bad"}

\* join_poll handlers run in their own slot, beside the handler in slot t1
JoinTasks == {"t2"}

NextRoom ==
  \/ \E t \in SeqTasks, tok \in RoomTokens : AuthEvent(t, "s2", tok)
  \/ \E t \in SeqTasks : AuthStep(t)
  \/ \E t \in JoinTasks, s \in Sockets, ref \in RoomRefs : JoinEvent(t, s, ref)
  \/ \E t \in JoinTasks : JoinRead(t)
  \/ \E s \in Sockets : Disconnect(s)
  \/ \E t \in SeqTasks, s \in Sockets, ref \in RoomRefs :
       /\ UserRateLimit(s).count < MaxVotesPerSocket
       /\ VoteEvent(t, s, ref, 1)
  \/ \E t \in SeqTasks, ref \in RoomRefs : RestVote(t, 1, parseInt(ref), 1)
  \/ \E t \in Tasks : Step(t)

SpecRoom == InitRace /\ [][NextRoom]_vars

\* The rate limit: one authenticated connection sends vote events for poll 1
\* one handler at a time while the clock advances.
NextRate ==
  \/ \E t \in SeqTasks, o \in RaceOptions : VoteEvent(t, "s1", <<"1">>, o)
  \/ \E t \in SeqTasks : WsStep(t)
  \/ Tick

SpecRate == InitRace /\ [][NextRate]_vars

\* Authentication: both connections send authenticate events with valid and
\* invalid credentials, two handlers in flight, join poll 1 and disconnect.
AuthRefs == {<<"1">>}

NextAuth ==
  \/ \E t \in Tasks, s \in Sockets, tok \in Tokens : AuthEvent(t, s, tok)
  \/ \E t \in Tasks : AuthStep(t)
  \/ \E t \in Tasks, s \in Sockets, ref \in AuthRefs : JoinEvent(t, s, ref)
  \/ \E t \in Tasks : JoinRead(t)
  \/ \E t \in Tasks : Retire(t)
  \/ \E s \in Sockets : Disconnect(s)

SpecAuth == Init /\ [][NextAuth]_vars

\* Disconnect during a vote: user 1 on s1 and user 2 on s2 have authenticated
\* and joined the room of poll 1; s1 sends vote events, two handlers may be in
\* flight, and either connection may disconnect at any point.  A handler in
\* flight is resumed by the event loop, hence the weak fairness of its steps.
InitJoined ==
  /\ polls = InitPolls
  /\ votes = {}
  /\ sock = [s \in Sockets |->
               [connected |-> TRUE, userId |-> IF s = "s1" THEN 1 ELSE 2,
                rooms |-> {RoomName(<<"1">>)}]]
  /\ activeUsers = [s \in Sockets |-> IF s = "s1" THEN 1 ELSE 2]
  /\ pollRooms = MapSet(EmptyMap, <<"1">>, Sockets)
  /\ rateLimit = EmptyMap
  /\ tasks = [t \in Tasks |-> IdleTask]
  /\ now = StartTime
  /\ ticks = 0
  /\ everVoted = {}
  /\ lastEmit = [p \in PollIds |-> NoSnap]
  /\ lastDelivery = NoDelivery
  /\ attempts = EmptyMap
  /\ options = InitOptions
  /\ seq = InitSeq
  /\ heap = CreationOrder

NextMidVote ==
  \/ \E t \in Tasks, ref \in RaceRefs, o \in RaceOptions :
       /\ UserRateLimit("s1").count < MaxVotesPerSocket
       /\ VoteEvent(t, "s1", ref, o)
  \/ \E t \in Tasks : WsStep(t)
  \/ \E s \in Sockets : Disconnect(s)

SpecMidVote ==
  InitJoined /\ [][NextMidVote]_vars /\ \A t \in Tasks : WF_vars(WsStep(t))

\* Option order: the PollOption rows of a poll lie in the table in any order
\* (the database promises none to a query without orderBy); s1 joins poll 1
\* and votes, REST callers vote, one handler at a time.
RowOrders(p) ==
  {q \in [1..Cardinality(OptionsOf(p)) -> OptionsOf(p)] :
     \A i, j \in DOMAIN q : i # j => q[i] # q[j]}

InitOrder ==
  /\ polls = InitPolls
  /\ votes = {}
  /\ sock = [s \in Sockets |->
               [connected |-> TRUE, userId |-> IF s = "s1" THEN 1 ELSE NoUser,
                rooms |-> {}]]
  /\ activeUsers = MapSet(EmptyMap, "s1", 1)
  /\ pollRooms = EmptyMap
  /\ rateLimit = EmptyMap
  /\ tasks = [t \in Tasks |-> IdleTask]
  /\ now = StartTime
  /\ ticks = 0
  /\ everVoted = {}
  /\ lastEmit = [p \in PollIds |-> NoSnap]
  /\ lastDelivery = NoDelivery
  /\ attempts = EmptyMap
  /\ options = InitOptions
  /\ seq = InitSeq
  /\ heap \in [PollIds -> UNION {RowOrders(p) : p \in PollIds}]
  /\ \A p \in PollIds : heap[p] \in RowOrders(p)

NextOrder ==
  \/ \E t \in SeqTasks, ref \in RaceRefs : JoinEvent(t, "s1", ref)
  \/ \E t \in SeqTasks : JoinRead(t)
  \/ \E t \in SeqTasks, ref \in RaceRefs, o \in RaceOptions :
       /\ UserRateLimit("s1").count < MaxVotesPerSocket
       /\ VoteEvent(t, "s1", ref, o)
  \/ \E t \in SeqTasks, u \in Users, ref \in RaceRefs, o \in RaceOptions :
       RestVote(t, u, parseInt(ref), o)
  \/ \E t \in SeqTasks : Step(t)

SpecOrder == InitOrder /\ [][NextOrder]_vars

\* REST votes only: voteOnPoll calls by two users, two in flight, naming
\* published poll 1, unpublished poll 3 and missing poll 9 with options that
\* belong to poll 1, to poll 3 or to no poll.
RestPolls == {1, 3, 9}
RestOptions == {1, 5, 9}

NextRest ==
  \/ \E t \in Tasks, u \in Users, p \in RestPolls, o \in RestOptions :
       RestVote(t, u, p, o)
  \/ \E t \in Tasks : RestStep(t)
  \/ \E t \in Tasks : Retire(t)

SpecRest == Init /\ [][NextRest]_vars

\* Joining: connection s1 (authenticated) and connection s2 (not) send
\* join_poll for a published poll, an unpublished poll, a poll id no poll has
\* and a poll id that is no number, two handlers at a time, and disconnect.
JoinRefs == {<<"1">>, <<"3">>, <<"9">>, <<"x">>}

NextJoin ==
  \/ \E t \in Tasks, s \in Sockets, ref \in JoinRefs : JoinEvent(t, s, ref)
  \/ \E t \in Tasks : JoinRead(t)
  \/ \E t \in Tasks : Retire(t)
  \/ \E s \in Sockets : Disconnect(s)

SpecJoin == InitRace /\ [][NextJoin]_vars

\* Reading: connection s1 votes on poll 1 and both connections join it again,
\* two handlers at a time, so that tally reads of vote and join_poll handlers
\* interleave with each other and with the ledger writes.
NextRead ==
  \/ \E t \in Tasks, o \in RaceOptions :
       /\ UserRateLimit("s1").count < MaxVotesPerSocket
       /\ VoteEvent(t, "s1", <<"1">>, o)
  \/ \E t \in Tasks, s \in Sockets : JoinEvent(t, s, <<"1">>)
  \/ \E t \in Tasks : JoinRead(t)
  \/ \E t \in Tasks : WsStep(t)

SpecRead == InitJoined /\ [][NextRead]_vars

\* Broadcast payloads: user 1 on s1 and user 2 on s2, both in the room of
\* poll 1, vote for its options, two handlers in flight.
NextPayload ==
  \/ \E t \in Tasks, s \in Sockets, o \in RaceOptions :
       /\ UserRateLimit(s).count < MaxVotesPerSocket
       /\ VoteEvent(t, s, <<"1">>, o)
  \/ \E t \in Tasks : WsStep(t)

SpecPayload == InitJoined /\ [][NextPayload]_vars

\* Poll management: users 1 and 2 create polls and update and delete poll 1
\* (created by user 1), the poll created on the way and a poll id no poll
\* has: createPoll and updatePoll in slot t1, deletePoll beside them in slot t2.
CreateTexts == {<<"a", "b">>, <<"b", "a", "a">>, <<"a">>}
ManagedPolls == {1, 4, 9}
UpdateBodies == {[question |-> "q2", published |-> "keep"],
                 [question |-> "", published |-> "no"]}

NextPolls ==
  \/ \E t \in SeqTasks, u \in Users, texts \in CreateTexts : createPoll(t, u, texts, TRUE)
  \/ \E t \in SeqTasks, u \in Users, p \in ManagedPolls, d \in UpdateBodies :
       UpdateEvent(t, u, p, d)
  \/ \E t \in JoinTasks, u \in Users, p \in ManagedPolls : DeleteEvent(t, u, p)
  \/ \E t \in Tasks : PollStep(t)
  \/ \E t \in Tasks : Retire(t)

SpecPolls == Init /\ [][NextPolls]_vars

(***************************************************************************)
(* Claims                                                                  *)
(***************************************************************************)
\* no handler is between two of its steps
Quiescent == \A t \in Tasks : tasks[t].pc \in {"idle", "done"}

IsVoteOp(t) == tasks[t].kind \in {"vote", "rest"}

\* the request passed the authentication guard and the rate check
Admitted2Ledger(t) == tasks[t].user # NoUser /\ tasks[t].ord <= MAX_REQUESTS

Accepted(t) == tasks[t].result \in {"ok", "201 Vote recorded successfully"}

\* totalVotes as the tally read computes it
TotalVotes(p) == getPollWithVotes(p, votes, polls).totalVotes

VotersEver(p) == {u \in Users : <<u, p>> \in everVoted}

\* C1 (single-vote invariant): once every vote operation has completed, each
\* voter who got a vote recorded on a poll has exactly one Vote row on that poll.
C1_SingleVoteAfterCompletion ==
  Quiescent =>
    \A pair \in everVoted : Cardinality(VotesOf(pair[1], pair[2], votes)) = 1

\* C4: in every reachable state the totalVotes of a poll is at most the number
\* of distinct voters who ever had a vote recorded on it.
C4_TotalVotesBoundedByVoters ==
  \A p \in PollIds : TotalVotes(p) <= Cardinality(VotersEver(p))

\* C8 (per-poll broadcast order): once every handler has returned, the last
\* tally broadcast emitted for a poll carries the tally of the committed ledger,
\* that is, no older snapshot was emitted after a newer one.
C8_LastBroadcastIsLatest ==
  Quiescent =>
    \A p \in PollIds :
      lastEmit[p].tag = "poll" => lastEmit[p] = getPollWithVotes(p, votes, polls)

\* the request names an existing, published poll and one of its options
WellFormed(t) ==
  /\ PollExists(tasks[t].poll)
  /\ polls[tasks[t].poll].isPublished
  /\ tasks[t].opt \in OptionsOf(tasks[t].poll)

\* the voter had a vote on another option of the poll when the request arrived
IsRevote(t) ==
  /\ IsVoteOp(t) /\ Admitted2Ledger(t) /\ WellFormed(t)
  /\ tasks[t].prior # {} /\ tasks[t].opt \notin tasks[t].prior

\* C2 (latest vote wins): a vote for another valid option of a published poll by
\* a voter who already voted on it succeeds, through the 'vote' event and through
\* voteOnPoll alike: the old vote is removed, the new one inserted, and the
\* voter's only row on the poll is the new option.
C2_LatestVoteWins ==
  \A t \in Tasks :
    (tasks[t].pc = "done" /\ IsRevote(t)) =>
      /\ Accepted(t)
      /\ tasks[t].removed = tasks[t].prior
      /\ tasks[t].inserted
      /\ VotesOf(tasks[t].user, tasks[t].poll, votes) = {<<tasks[t].user, tasks[t].opt>>}

\* C5: a vote request answered with an error has neither removed nor inserted
\* a Vote row.
C5_RejectedVoteChangesNothing ==
  \A t \in Tasks :
    (tasks[t].pc = "done" /\ IsVoteOp(t) /\ ~Accepted(t)) =>
      (tasks[t].removed = {} /\ ~tasks[t].inserted)

\* C9: a vote operation never emits two tally broadcasts, and one that removed
\* or inserted a Vote row has emitted exactly one when it returns.
C9_EveryChangeBroadcastOnce ==
  \A t \in Tasks :
    IsVoteOp(t) =>
      /\ tasks[t].nb <= 1
      /\ (tasks[t].pc = "done" /\ (tasks[t].removed # {} \/ tasks[t].inserted))
           => tasks[t].nb = 1

\* C10: no Vote row is ever recorded on an option of an unpublished poll, and a
\* vote request naming an unpublished poll and one of its options is answered
\* with the policy error of an unpublished poll.
C10_NoVoteOnUnpublishedPoll ==
  /\ \A v \in votes : polls[OptionPoll(v[2])].isPublished
  /\ \A t \in Tasks :
       ( /\ IsVoteOp(t) /\ Admitted2Ledger(t) /\ tasks[t].pc = "done"
         /\ PollExists(tasks[t].poll) /\ ~polls[tasks[t].poll].isPublished
         /\ tasks[t].opt \in OptionsOf(tasks[t].poll) ) =>
         tasks[t].result = "400 This poll is not published"

\* the poll a room name stands for: `poll_${pollId}` read back
RoomPoll(room) == parseInt(SubSeq(room, Len(RoomName(<<>>)) + 1, Len(room)))

\* the connection is subscribed, and to polls other than p only
SubscribedOnlyElsewhere(rooms, p) ==
  rooms # {} /\ \A r \in rooms : RoomPoll(r) # p

\* C3 (room isolation): no tally broadcast for a poll was delivered to a
\* connection whose only subscription at that instant was another poll.
C3_RoomIsolation ==
  \A d \in lastDelivery.to : ~SubscribedOnlyElsewhere(d[2], lastDelivery.pollId)

\* a broadcast for poll 1 reached s1 in room poll_1 while s2 sits in room poll_2
C3_Witness ==
  /\ lastDelivery.pollId = 1
  /\ lastDelivery.to = {<<"s1", {RoomName(<<"1">>)}>>}
  /\ sock["s2"].rooms = {RoomName(<<"2">>)}
  /\ \E t \in Tasks : IsVoteOp(t) /\ tasks[t].pc = "done" /\ tasks[t].nb = 1

\* C6 (at most one room): a connection is in at most one poll room, and after
\* its join_poll for Y has run it is a member of no room but Y's.
C6_AtMostOneRoom ==
  /\ \A s \in Sockets : Cardinality(sock[s].rooms) <= 1
  /\ \A t \in JoinTasks :
       ( /\ tasks[t].kind = "join" /\ tasks[t].user # NoUser
         /\ sock[tasks[t].sock].connected ) =>
         \A ref \in RoomRefs :
           tasks[t].sock \in RoomMembers(RoomName(ref)) => ref = tasks[t].ref

\* s1 joined poll 1 (the tracking map still says so), then poll 2, and is a
\* member of room poll_2 only
C6_Witness ==
  /\ <<"1">> \in DOMAIN pollRooms /\ "s1" \in pollRooms[<<"1">>]
  /\ "s1" \in RoomMembers(RoomName(<<"2">>))
  /\ "s1" \notin RoomMembers(RoomName(<<"1">>))

\* C7 (rate limit): a vote event that is the 6th or later inside the window its
\* connection's first counted attempt opened is answered 'Rate limit exceeded'
\* at once and removes nothing, inserts nothing and broadcasts nothing.
C7_SixthVoteRejected ==
  \A t \in Tasks :
    (tasks[t].kind = "vote" /\ tasks[t].ord > MAX_REQUESTS) =>
      /\ tasks[t].pc = "done"
      /\ tasks[t].result = "Rate limit exceeded"
      /\ tasks[t].removed = {} /\ ~tasks[t].inserted /\ tasks[t].nb = 0

\* five attempts were admitted in the window and a sixth came before it closed
C7_Witness ==
  \E t \in Tasks :
    /\ tasks[t].kind = "vote" /\ tasks[t].ord = MAX_REQUESTS + 1
    /\ tasks[t].result = "Rate limit exceeded"
    /\ rateLimit[tasks[t].sock].count = MAX_REQUESTS
    /\ now - rateLimit[tasks[t].sock].lastRequest < RATE_LIMIT_WINDOW

\* C11: a vote request (pollId = p, optionId = o) whose option o is not an
\* option of p (it belongs to another poll or does not exist) inserts no Vote
\* row and removes none of the voter's rows on p.
C11_VoteOptionBelongsToPoll ==
  \A t \in Tasks :
    ( /\ IsVoteOp(t) /\ Admitted2Ledger(t)
      /\ tasks[t].opt \notin OptionsOf(tasks[t].poll) ) =>
      (~tasks[t].inserted /\ tasks[t].removed = {})

\* C12: voteOnPoll checks poll exists, poll is published, option belongs to
\* the poll in that order and answers with the first failure: 404 for a
\* missing poll and 'not published' for an unpublished one whatever the
\* option is, 'Invalid option' only for a published poll; a request that
\* fails a check touches no Vote row and broadcasts nothing.
C12_PreconditionOrder ==
  \A t \in Tasks :
    (tasks[t].kind = "rest" /\ tasks[t].pc = "done") =>
      /\ ~PollExists(tasks[t].poll) => tasks[t].result = "404 Poll not found"
      /\ (PollExists(tasks[t].poll) /\ ~polls[tasks[t].poll].isPublished)
           => tasks[t].result = "400 This poll is not published"
      /\ ( /\ PollExists(tasks[t].poll) /\ polls[tasks[t].poll].isPublished
           /\ tasks[t].opt \notin OptionsOf(tasks[t].poll) )
           => tasks[t].result = "400 Invalid option for this poll"
      /\ ~WellFormed(t) => (~tasks[t].inserted /\ tasks[t].nb = 0)

\* a call on missing poll 9 and a call on unpublished poll 3, both with an
\* option that does not belong to the poll, have been answered
C12_Witness ==
  /\ tasks["t1"].kind = "rest" /\ tasks["t1"].poll = 9 /\ tasks["t1"].opt = 9
  /\ tasks["t1"].result = "404 Poll not found"
  /\ tasks["t2"].kind = "rest" /\ tasks["t2"].poll = 3 /\ tasks["t2"].opt = 1
  /\ tasks["t2"].result = "400 This poll is not published"

\* C13: a join_poll or vote event of a connection that has not authenticated
\* is answered 'Not authenticated' at once, and the step changes no room
\* membership, no room tracking entry, no rate-limit counter and no Vote row.
C13_UnauthenticatedRejected ==
  [][\A t \in Tasks :
       ( /\ tasks[t].kind = "idle"
         /\ tasks'[t].kind \in {"join", "vote"}
         /\ sock[tasks'[t].sock].userId = NoUser ) =>
         /\ tasks'[t].pc = "done"
         /\ tasks'[t].result = "Not authenticated"
         /\ UNCHANGED <<sock, pollRooms, rateLimit, votes>>]_vars

\* the unauthenticated connection s2 has sent a vote and a join_poll event
C13_Witness ==
  /\ sock["s2"].userId = NoUser
  /\ tasks["t1"].kind = "vote" /\ tasks["t1"].sock = "s2"
  /\ tasks["t1"].result = "Not authenticated"
  /\ tasks["t2"].kind = "join" /\ tasks["t2"].sock = "s2"
  /\ tasks["t2"].result = "Not authenticated"
  /\ sock["s2"].rooms = {} /\ "s2" \notin DOMAIN rateLimit

\* C14 (authentication is monotonic): a connected, authenticated connection
\* is still authenticated after every step, and an authenticate request whose
\* credential is invalid leaves socket.userId and activeUsers as they were.
C14_AuthenticationMonotonic ==
  [][ /\ \A s \in Sockets :
           (sock[s].connected /\ sock[s].userId # NoUser) => sock'[s].userId # NoUser
      /\ \A t \in Tasks :
           ( /\ tasks[t].kind = "auth" /\ tasks[t].pc = "verify"
             /\ tasks'[t].result = "authentication_error" ) =>
             UNCHANGED <<sock, activeUsers>> ]_vars

\* s1, authenticated as user 1, got 'authentication_error' for a later
\* request and is user 1 still
C14_Witness ==
  \E t \in Tasks :
    /\ tasks[t].kind = "auth" /\ tasks[t].sock = "s1"
    /\ tasks[t].result = "authentication_error" /\ tasks[t].was = 1
    /\ sock["s1"].connected /\ sock["s1"].userId = 1
    /\ "s1" \in DOMAIN activeUsers /\ activeUsers["s1"] = 1

\* C15: an unauthenticated connection has no activeUsers entry; an
\* authenticate request with an invalid credential is answered
\* 'authentication_error' and changes neither the sockets nor activeUsers, and
\* one with a valid credential, after any number of failures, is answered
\* 'authenticated' and sets socket.userId and the activeUsers entry.
C15_InvalidCredentialKeepsConnectionUsable ==
  /\ [](\A s \in Sockets : sock[s].userId = NoUser => s \notin DOMAIN activeUsers)
  /\ [][\A t \in Tasks :
          (tasks[t].kind = "auth" /\ tasks[t].pc = "verify" /\ tasks'[t].pc = "done") =>
            IF tasks[t].user = NoUser
            THEN /\ tasks'[t].result = "authentication_error"
                 /\ UNCHANGED <<sock, activeUsers>>
            ELSE /\ tasks'[t].result = "authenticated"
                 /\ sock'[tasks[t].sock].userId = tasks[t].user
                 /\ tasks[t].sock \in DOMAIN activeUsers'
                 /\ activeUsers'[tasks[t].sock] = tasks[t].user]_vars

\* s2 got 'authentication_error' while unauthenticated and 'authenticated'
\* for a later request
C15_Witness ==
  /\ tasks["t1"].kind = "auth" /\ tasks["t1"].sock = "s2"
  /\ tasks["t1"].result = "authentication_error" /\ tasks["t1"].was = NoUser
  /\ tasks["t2"].kind = "auth" /\ tasks["t2"].sock = "s2"
  /\ tasks["t2"].result = "authenticated" /\ tasks["t2"].was = NoUser
  /\ sock["s2"].connected /\ sock["s2"].userId = 2
  /\ "s2" \in DOMAIN activeUsers /\ activeUsers["s2"] = 2

\* C16: a connection whose disconnect event has been processed is in no
\* Socket.IO room and in no users set of the pollRooms registry.
C16_DisconnectedInNoRoom ==
  \A s \in Sockets :
    ~sock[s].connected =>
      /\ sock[s].rooms = {}
      /\ \A r \in DOMAIN pollRooms : s \notin pollRooms[r]

\* s1 joined the room of poll 2 and disconnected while s2 stays tracked in a room
C16_Witness ==
  /\ ~sock["s1"].connected
  /\ tasks["t2"].kind = "join" /\ tasks["t2"].sock = "s1"
  /\ tasks["t2"].ref = <<"2">> /\ tasks["t2"].result = "poll_data"
  /\ \E r \in DOMAIN pollRooms : "s2" \in pollRooms[r]

\* the vote handler in slot t had committed its insert and not emitted yet
\* when its connection disconnected
CommittedThenDisconnected(t) ==
  /\ tasks[t].kind = "vote" /\ tasks[t].inserted
  /\ tasks[t].pc \in {"read", "emit"}
  /\ tasks[t].orphaned

\* the handler in slot t has just broadcast its tally to every socket that is
\* in the poll's room
BroadcastToSubscribers(t) ==
  /\ tasks[t].kind = "vote" /\ tasks[t].pc = "done" /\ tasks[t].result = "ok"
  /\ tasks[t].nb = 1
  /\ lastDelivery.room = RoomName(tasks[t].ref)
  /\ lastDelivery.to =
       {<<s, sock[s].rooms>> : s \in {x \in Sockets : RoomName(tasks[t].ref) \in sock[x].rooms}}

\* C17: a disconnect removes no Vote row, and a vote handler whose connection
\* disconnected after its insert committed goes on to broadcast the tally to
\* the sockets remaining in the poll's room.
C17_BroadcastSurvivesDisconnect ==
  /\ [][(\E s \in Sockets : sock[s].connected /\ ~sock'[s].connected)
          => votes' = votes]_vars
  /\ \A t \in Tasks : CommittedThenDisconnected(t) ~> BroadcastToSubscribers(t)

\* s1 disconnected during its vote; the vote is in the ledger and the
\* broadcast reached s2, the remaining subscriber of poll 1
C17_Witness ==
  \E t \in Tasks :
    /\ BroadcastToSubscribers(t)
    /\ tasks[t].orphaned
    /\ tasks[t].sock = "s1" /\ ~sock["s1"].connected
    /\ <<tasks[t].user, tasks[t].opt>> \in votes
    /\ tasks[t].snap.totalVotes >= 1
    /\ lastDelivery.to = {<<"s2", {RoomName(<<"1">>)}>>}

\* the option list of a tally snapshot is sorted by the order field
SortedSnapshot(snap) ==
  snap.tag = "poll" => snap.options = SortedByOrder(OptionsOf(snap.pollId))

\* C18 (order stability): every tally snapshot produced for a poll, the REST
\* response body, the poll_data of join_poll and the payload of both broadcast
\* events, lists the poll's options sorted by their order field.
C18_OptionsSortedByOrder ==
  /\ \A t \in Tasks : SortedSnapshot(tasks[t].snap) /\ SortedSnapshot(tasks[t].rsnap)
  /\ \A p \in PollIds : SortedSnapshot(lastEmit[p])

\* the per-option counts of a snapshot added up, one unit per counted vote
SnapshotSum(snap) ==
  Cardinality({c \in (DOMAIN snap.counts) \X (1..Cardinality(Users)) :
                 c[2] <= snap.counts[c[1]]})

SelfConsistent(snap) == snap.tag = "poll" => snap.totalVotes = SnapshotSum(snap)

\* C19: in every tally snapshot (read for a broadcast, for poll_data or for the
\* REST response, and the last one emitted per poll) totalVotes is the sum of
\* the per-option counts of that same snapshot.
C19_TotalIsSumOfCounts ==
  /\ \A t \in Tasks : SelfConsistent(tasks[t].snap) /\ SelfConsistent(tasks[t].rsnap)
  /\ \A p \in PollIds : SelfConsistent(lastEmit[p])

\* a snapshot read while poll 1 held two votes: counts 1 and 1, totalVotes 2
C19_Witness ==
  \E t \in Tasks :
    /\ tasks[t].snap.tag = "poll" /\ tasks[t].snap.totalVotes = 2
    /\ tasks[t].snap.counts[1] = 1 /\ tasks[t].snap.counts[2] = 1

\* the options of the poll named by the request in slot t on which its voter
\* had a row when the request arrived
HadVotes(t) ==
  {v[2] : v \in {x \in tasks[t].ledger0 :
                   x[1] = tasks[t].user /\ OptionPoll(x[2]) = tasks[t].poll}}

\* C20 (idempotent in effect): when a voter whose vote on poll p is option o
\* casts a vote for o again, through the 'vote' event or voteOnPoll, the set of
\* (voter, option) rows after the call equals the set before it.
C20_SameOptionAgainKeepsLedger ==
  \A t \in Tasks :
    ( /\ tasks[t].pc = "done" /\ IsVoteOp(t) /\ Admitted2Ledger(t)
      /\ HadVotes(t) = {tasks[t].opt} ) =>
      votes = tasks[t].ledger0

\* user 1 voted option 1 of poll 1 twice through the 'vote' event: the second
\* call removed the row and inserted it again
C20_Witness ==
  \E t \in Tasks :
    /\ tasks[t].kind = "vote" /\ tasks[t].pc = "done" /\ tasks[t].result = "ok"
    /\ tasks[t].poll = 1 /\ tasks[t].opt = 1 /\ HadVotes(t) = {1}
    /\ tasks[t].removed = {1} /\ tasks[t].inserted
    /\ votes = tasks[t].ledger0 /\ <<1, 1>> \in votes

\* outcome, ledger and broadcast event of the finished vote operation in slot t
OwnEffect(t) ==
  [accepted |-> Accepted(t), ledger |-> votes, event |-> tasks[t].event]

\* what the entry point the request did not use does with the same request on
\* the ledger the request found
OtherEffect(t) ==
  IF tasks[t].kind = "vote"
  THEN voteOnPollEffect(tasks[t].user, tasks[t].poll, tasks[t].opt, tasks[t].ledger0)
  ELSE voteEventEffect(tasks[t].user, tasks[t].poll, tasks[t].opt, tasks[t].ledger0)

\* what the entry point the request used does, by its summary
SameEffect(t) ==
  IF tasks[t].kind = "vote"
  THEN voteEventEffect(tasks[t].user, tasks[t].poll, tasks[t].opt, tasks[t].ledger0)
  ELSE voteOnPollEffect(tasks[t].user, tasks[t].poll, tasks[t].opt, tasks[t].ledger0)

\* the summaries agree with the handlers run one at a time
EffectsMatchHandlers ==
  \A t \in Tasks :
    (tasks[t].pc = "done" /\ IsVoteOp(t) /\ Admitted2Ledger(t)) =>
      OwnEffect(t) = SameEffect(t)

\* C21: voteOnPoll and the 'vote' event are one operation: a request for an
\* option of a published poll served by either ends with the outcome, the ledger
\* and the broadcast event the other gives for the same voter, poll and option
\* on the same ledger.
C21_RestAndSocketVoteAgree ==
  \A t \in Tasks :
    (tasks[t].pc = "done" /\ IsVoteOp(t) /\ Admitted2Ledger(t) /\ WellFormed(t)) =>
      OwnEffect(t) = OtherEffect(t)

\* the vote operation in slot t finished without its row: its insert of an
\* existing option was refused by the uniqueness guard, a concurrent vote of the
\* same voter having inserted the same (voter, option) pair first
LostRace(t) ==
  /\ tasks[t].pc = "done" /\ IsVoteOp(t)
  /\ tasks[t].tries >= 1 /\ ~tasks[t].inserted
  /\ OptionExists(tasks[t].opt)

\* C22: a vote operation whose insert hit the uniqueness guard made a second
\* insert attempt before it reported an error, and it did report one.
C22_RetriedOnceBeforeError ==
  \A t \in Tasks :
    LostRace(t) => (tasks[t].tries = 2 /\ tasks[t].result # "" /\ ~Accepted(t))

\* the member set pollRooms tracks for the poll id ref
Tracked(ref) == IF ref \in DOMAIN pollRooms THEN pollRooms[ref] ELSE {}

\* C23: for every poll id the set pollRooms tracks is the set of connections
\* an emit to the poll's room reaches.
C23_RegistryIsDeliverySet ==
  \A ref \in RoomRefs : Tracked(ref) = RoomMembers(RoomName(ref))

\* C24: pollRooms has an entry for a poll id only while some connection is in
\* that poll's room.
C24_EmptyRoomsPruned ==
  \A ref \in DOMAIN pollRooms : RoomMembers(RoomName(ref)) # {}

\* the poll id names a poll that exists and is published
Joinable(p) == PollExists(p) /\ polls[p].isPublished

\* C25: no connection is in the room of, or tracked in pollRooms under, a poll
\* id that names no poll or an unpublished poll, and a join_poll for such a
\* poll id ends with an error.
C25_JoinOfUnknownPollRejected ==
  /\ \A s \in Sockets : \A r \in sock[s].rooms : Joinable(RoomPoll(r))
  /\ \A ref \in DOMAIN pollRooms : Joinable(parseInt(ref))
  /\ \A t \in Tasks :
       (tasks[t].kind = "join" /\ tasks[t].pc = "done" /\ ~Joinable(tasks[t].poll))
         => tasks[t].result # "poll_data"

\* no handler of connection s is between two of its steps
NoHandlerInFlight(s) ==
  \A t \in Tasks : tasks[t].sock = s => tasks[t].pc \in {"idle", "done"}

\* C26: once a connection has disconnected and its handlers have finished,
\* neither activeUsers nor rateLimit has an entry under its socket id.
C26_SessionStateDestroyed ==
  \A s \in Sockets :
    (~sock[s].connected /\ NoHandlerInFlight(s)) =>
      (s \notin DOMAIN activeUsers /\ s \notin DOMAIN rateLimit)

\* slot t holds a snapshot a vote or join_poll handler read with getPollWithVotes
HoldsRead(t) ==
  tasks[t].kind \in {"vote", "join"} /\ tasks[t].snap.tag # "none"

\* the step is a tally read: a handler leaves the await of its read
IsTallyRead(t) ==
  /\ tasks[t].pc \in {"read", "join_read", "r_readback", "r_bread"}
  /\ tasks'[t].pc # tasks[t].pc

BroadcastsOwnWrite(t) ==
  /\ IsVoteOp(t) /\ WellFormed(t) /\ tasks[t].inserted
  /\ tasks[t].pc \in {"emit", "r_emit", "done"}

\* the Vote rows the voter of slot t had on the poll when the request arrived,
\* the one for the requested option left out
ReplacedRows(t) ==
  {v \in tasks[t].ledger0 : /\ v[1] = tasks[t].user
                            /\ OptionPoll(v[2]) = tasks[t].poll
                            /\ v[2] # tasks[t].opt}

\* snap counts, option by option, the rows a read found, the row of slot t's
\* own insert among them and none of the rows it replaced
CountsOwnWrite(t, snap, rows) ==
  /\ snap.tag = "poll"
  /\ \A o \in OptionsOf(tasks[t].poll) :
       snap.counts[o] = Cardinality({v \in rows : v[2] = o})
  /\ <<tasks[t].user, tasks[t].opt>> \in rows
  /\ rows \cap ReplacedRows(t) = {}

ReadYourWrite(t) ==
  /\ CountsOwnWrite(t, tasks[t].snap, tasks[t].seen)
  /\ tasks[t].kind = "rest" => CountsOwnWrite(t, tasks[t].rsnap, tasks[t].rseen)

\* the step is the read of a snapshot by a vote operation that has inserted
ReadsAfterWrite(t) ==
  /\ IsVoteOp(t)
  /\ tasks[t].pc \in {"read", "r_readback", "r_bread"} /\ tasks'[t].pc # tasks[t].pc
  /\ tasks'[t].inserted

MidRevote(x, p) ==
  /\ tasks[x].kind = "vote" /\ tasks[x].pc = "create"
  /\ tasks[x].poll = p /\ tasks[x].removed # {}

\* C29: no snapshot that is broadcast or sent on join is read while a revote on
\* its poll has its old vote deleted and its new vote not yet inserted.
C29_NoSnapshotOfHalfRevote ==
  [][\A t \in Tasks :
       IsTallyRead(t) => ~\E x \in Tasks \ {t} : MidRevote(x, tasks[t].poll)]_vars

\* the step takes up a vote event of an authenticated connection in slot t
VoteArrives(t) ==
  tasks[t].kind = "idle" /\ tasks'[t].kind = "vote" /\ tasks'[t].user # NoUser

\* the attempt taken up in slot t goes on to the ledger
GoesOn(t) == tasks'[t].pc = "deleteMany"

\* C30: the window of a connection starts at its first counted vote attempt;
\* an attempt with fewer than MAX_REQUESTS counted in the open window is
\* admitted and counted and leaves the window start alone; the first attempt
\* RATE_LIMIT_WINDOW or more after the window start is admitted, sets the count
\* to 1 and starts a window at that attempt; an attempt with MAX_REQUESTS counted
\* in the open window is rejected and leaves count and window start as they were.
C30_FixedWindow ==
  /\ [](\A s \in DOMAIN rateLimit :
          /\ rateLimit[s].count \in 1..MAX_REQUESTS
          /\ s \in DOMAIN attempts /\ rateLimit[s].lastRequest = attempts[s].start)
  /\ [][\A t \in Tasks :
          VoteArrives(t) =>
            LET s == tasks'[t].sock
            IN IF s \notin DOMAIN rateLimit \/ now - rateLimit[s].lastRequest >= RATE_LIMIT_WINDOW
               THEN /\ GoesOn(t)
                    /\ rateLimit'[s] = [count |-> 1, lastRequest |-> now]
               ELSE IF rateLimit[s].count < MAX_REQUESTS
               THEN /\ GoesOn(t)
                    /\ rateLimit'[s] = [count |-> rateLimit[s].count + 1,
                                        lastRequest |-> rateLimit[s].lastRequest]
               ELSE /\ tasks'[t].result = "Rate limit exceeded"
                    /\ rateLimit' = rateLimit]_vars

\* a vote event exactly RATE_LIMIT_WINDOW after the start of a window in which
\* a vote was recorded was admitted as the first of a new window
C30_Witness ==
  \E t \in Tasks :
    /\ tasks[t].kind = "vote" /\ tasks[t].pc = "deleteMany" /\ tasks[t].ord = 1
    /\ tasks[t].ledger0 # {}
    /\ now = StartTime + RATE_LIMIT_WINDOW
    /\ rateLimit[tasks[t].sock] = [count |-> 1, lastRequest |-> now]

\* slot t makes the write of an updatePoll or deletePoll call of user u on poll p
OwnerWrites(t, u, p, kind, pc) ==
  /\ tasks[t].kind = kind /\ tasks[t].pc = pc /\ tasks'[t].pc # pc
  /\ tasks[t].user = u /\ tasks[t].poll = p

\* the owner check of slot t is answered for a user who is not the creator
StrangerChecked(t) ==
  /\ tasks[t].kind \in {"update", "delete"} /\ tasks[t].pc \in {"u_find", "d_find"}
  /\ tasks'[t].pc # tasks[t].pc
  /\ PollExists(tasks[t].poll) /\ polls[tasks[t].poll].creatorId # tasks[t].user

\* C31: in every step a poll that changes is changed by an updatePoll of its
\* creator, in question and published flag only; a poll that disappears is
\* deleted by a deletePoll of its creator; the option rows of a poll that stays
\* are the same rows with the same order; and the check of an updatePoll or
\* deletePoll by another user answers 403 and changes no table.
C31_OwnerOnlyAndOptionsFixed ==
  [][/\ \A p \in DOMAIN polls :
          IF p \in DOMAIN polls'
          THEN /\ polls'[p].creatorId = polls[p].creatorId
               /\ polls'[p] # polls[p] =>
                    \E t \in Tasks : OwnerWrites(t, polls[p].creatorId, p, "update", "u_write")
               /\ \A o \in DOMAIN options : options[o].pollId = p =>
                    (o \in DOMAIN options' /\ options'[o] = options[o])
               /\ \A o \in DOMAIN options' : options'[o].pollId = p => o \in DOMAIN options
               /\ heap'[p] = heap[p]
          ELSE \E t \in Tasks : OwnerWrites(t, polls[p].creatorId, p, "delete", "d_write")
     /\ \A t \in Tasks :
          StrangerChecked(t) =>
            /\ tasks'[t].pc = "done"
            /\ tasks'[t].result \in {"403 Not authorized to update this poll",
                                     "403 Not authorized to delete this poll"}
            /\ UNCHANGED <<polls, options, votes, heap>>]_vars

\* user 2 asked to update poll 1 and, beside that, to delete it; both requests
\* got 403 and poll 1 is there as user 1 created it
C31_Witness ==
  /\ tasks["t1"].kind = "update" /\ tasks["t1"].user = 2 /\ tasks["t1"].poll = 1
  /\ tasks["t1"].result = "403 Not authorized to update this poll"
  /\ tasks["t2"].kind = "delete" /\ tasks["t2"].user = 2 /\ tasks["t2"].poll = 1
  /\ tasks["t2"].result = "403 Not authorized to delete this poll"
  /\ PollExists(1) /\ polls[1] = InitPolls[1] /\ OptionsOf(1) = {1, 2}

\* the option rows of poll p carry the orders 0 .. n-1, each once
OrdersDistinct(p) ==
  /\ \A o1, o2 \in OptionsOf(p) : o1 # o2 => OptionOrder(o1) # OptionOrder(o2)
  /\ {OptionOrder(o) : o \in OptionsOf(p)} = 0..(Cardinality(OptionsOf(p)) - 1)

\* C32: in every poll the options' order values are pairwise distinct and are
\* 0 .. n-1, and the poll a createPoll call made has, for every position i of
\* the submitted texts, one option with that text and order i.
C32_OrdersDistinctPerPoll ==
  /\ \A p \in DOMAIN polls : OrdersDistinct(p)
  /\ \A t \in Tasks :
       (tasks[t].kind = "create" /\ tasks[t].result = "201" /\ PollExists(tasks[t].poll)) =>
         /\ Cardinality(OptionsOf(tasks[t].poll)) = Len(tasks[t].texts)
         /\ \A i \in 1..Len(tasks[t].texts) :
              \E o \in OptionsOf(tasks[t].poll) :
                OptionOrder(o) = i - 1 /\ options[o].text = tasks[t].texts[i]

\* poll 4 was created from the texts b, a, a: its options 7, 8, 9 carry the
\* orders 0, 1, 2 although two texts are equal
C32_Witness ==
  /\ tasks["t1"].kind = "create" /\ tasks["t1"].result = "201"
  /\ tasks["t1"].texts = <<"b", "a", "a">> /\ tasks["t1"].poll = 4
  /\ PollExists(4) /\ OptionsOf(4) = {7, 8, 9}
  /\ OptionOrder(7) = 0 /\ OptionOrder(8) = 1 /\ OptionOrder(9) = 2

\* the finished vote request in slot t wrote nothing to the Vote table
LedgerUntouched(t) ==
  /\ IsVoteOp(t) /\ tasks[t].pc = "done"
  /\ tasks[t].removed = {} /\ ~tasks[t].inserted

\* C33: a vote request that ended without removing or inserting a Vote row
\* emitted no tally broadcast.
C33_NoBroadcastWithoutWrite ==
  \A t \in Tasks : LedgerUntouched(t) => (tasks[t].nb = 0 /\ tasks[t].event = "")

\* C34: a finished voteOnPoll call has sent exactly one response, and one that
\* answered 400 'You have already voted on this poll' from inside the
\* transaction has taken no snapshot and broadcast nothing afterwards.
C34_OneResponsePerRequest ==
  \A t \in Tasks :
    (tasks[t].kind = "rest" /\ tasks[t].pc = "done") =>
      /\ tasks[t].responses = 1
      /\ tasks[t].result = "400 You have already voted on this poll" =>
           (tasks[t].nb = 0 /\ tasks[t].rsnap = NoSnap /\ tasks[t].snap = NoSnap)

\* the step takes up a join_poll request of an authenticated connection whose
\* poll read will throw
FailingJoinArrives(t) ==
  /\ tasks[t].kind = "idle" /\ tasks'[t].kind = "join"
  /\ tasks'[t].pc = "join_read" /\ ReadThrows(tasks'[t].poll)

\* C35: a join_poll request ends with 'Failed to join poll' only when its poll
\* read throws, and such a request leaves the rooms of its connection and the
\* pollRooms tracking as they were before it.
C35_FailedJoinKeepsSubscription ==
  /\ [](\A t \in Tasks :
          (tasks[t].kind = "join" /\ tasks[t].result = "Failed to join poll")
            => ReadThrows(tasks[t].poll))
  /\ [][\A t \in Tasks : FailingJoinArrives(t) => UNCHANGED <<sock, pollRooms>>]_vars

C37_UserLeftExactlyOnLeaving ==
  [][/\ \A t \in Tasks, s \in Sockets, ref \in JoinRefs :
          JoinEvent(t, s, ref)
            => UserLeftOnJoin(s, ref) = sock[s].rooms \ sock'[s].rooms
     /\ \A s \in Sockets :
          Disconnect(s) => UserLeftOnDisconnect(s) = sock[s].rooms]_vars

\* a vote handler that has read the tally and is about to broadcast it
AboutToBroadcast(t) == tasks[t].kind = "vote" /\ tasks[t].pc = "emit"

\* C38: the 'poll_updated' payload does not depend on who voted: two vote
\* handlers of different voters that broadcast the same poll with the same
\* per-option counts broadcast the same payload.
C38_PayloadIndependentOfVoter ==
  \A t1, t2 \in Tasks :
    (/\ AboutToBroadcast(t1) /\ AboutToBroadcast(t2)
     /\ tasks[t1].user # tasks[t2].user
     /\ tasks[t1].snap = tasks[t2].snap)
      => updatedPoll(t1) = updatedPoll(t2)

\* the attempts of socket s that passed the rate check at a time in [a, a + len)
AdmittedWithin(s, a, len) ==
  SumCounts(attempts[s].adm,
            {x \in DOMAIN attempts[s].adm : a <= x /\ x < a + len})

\* C39: in every interval of RATE_LIMIT_WINDOW milliseconds at most
\* MAX_REQUESTS vote attempts of a connection pass the rate check, wherever
\* the interval starts.  (A largest interval starts at an admitted attempt.)
C39_AtMostMaxInAnyInterval ==
  \A s \in DOMAIN attempts : \A a \in DOMAIN attempts[s].adm :
    AdmittedWithin(s, a, RATE_LIMIT_WINDOW) <= MAX_REQUESTS

\* C39 as the limiter provides it: at most MAX_REQUESTS attempts pass in the
\* limiter's own window, which starts at the first attempt it counts, and at
\* most 2 * MAX_REQUESTS - 1 pass in an interval of RATE_LIMIT_WINDOW
\* milliseconds that starts anywhere.
C39_AtMostMaxPerLimiterWindow ==
  \A s \in DOMAIN attempts :
    /\ AdmittedWithin(s, attempts[s].start, RATE_LIMIT_WINDOW) <= MAX_REQUESTS
    /\ \A a \in DOMAIN attempts[s].adm :
         AdmittedWithin(s, a, RATE_LIMIT_WINDOW) <= 2 * MAX_REQUESTS - 1

C39_Witness ==
  \E s \in DOMAIN attempts : \E a \in DOMAIN attempts[s].adm :
    /\ a > attempts[s].start - RATE_LIMIT_WINDOW /\ a < attempts[s].start
    /\ AdmittedWithin(s, a, RATE_LIMIT_WINDOW) = 2 * MAX_REQUESTS - 1
    /\ AdmittedWithin(s, attempts[s].start, RATE_LIMIT_WINDOW) = MAX_REQUESTS

\* C40: no entry of pollRooms has an empty users set: an entry is created
\* together with its first member and deleted by the step that removes its
\* last tracked member.
C40_NoEmptyRoomTracked ==
  \A ref \in DOMAIN pollRooms : pollRooms[ref] # {}

\* both connections joined the room of one poll and both have disconnected:
\* the entry outlived the first disconnect and is gone after the second
C40_Witness ==
  \E t1, t2 \in Tasks :
    /\ tasks[t1].kind = "join" /\ tasks[t1].result = "poll_data"
    /\ tasks[t2].kind = "join" /\ tasks[t2].result = "poll_data"
    /\ tasks[t1].sock # tasks[t2].sock /\ tasks[t1].ref = tasks[t2].ref
    /\ ~sock[tasks[t1].sock].connected /\ ~sock[tasks[t2].sock].connected
    /\ tasks[t1].ref \notin DOMAIN pollRooms
====
